---- MODULE Spec2Model ----
(***************************************************************************)
(* Model of scripts/fix-template-queries.py ("v1") and                     *)
(* scripts/fix-template-queries-v2.py ("v2"): read the target file, apply  *)
(* the regular-expression substitutions, overwrite the file, print.        *)
(*                                                                         *)
(* A text is a sequence of tokens.  A token is one character, except the   *)
(* three literals the patterns and the replacer look for, which are kept   *)
(* whole: "executeQuery", "mapRowToObject" and "query".  None of them      *)
(* overlaps itself or the others, so a match can neither start nor end     *)
(* inside one; the only place a pattern consumes part of one is group 3 of *)
(* pattern2 ([^;], one character), and what is left of the literal after   *)
(* that character starts no match, exactly as when the whole token is      *)
(* consumed.                                                               *)
(***************************************************************************)
EXTENDS Integers, Sequences, FiniteSets, TLC

VARIABLES
    script,     \* which script the instances run: "v1" or "v2"
    exists,     \* whether the target file exists
    file,       \* the target file's content
    orig,       \* the file's content before any instance ran
    pc,         \* each instance's position in the script
    content,    \* each instance's variable `content`
    found,      \* each instance's matches of its latest re.sub call
    out,        \* standard output: the lines printed, in order
    trace       \* the steps the instances have taken, in order

vars == <<script, exists, file, orig, pc, content, found, out, trace>>

Procs == {1, 2}

----------------------------------------------------------------------------
(* Tokens *)

EQ == "executeQuery"
MAP == "mapRowToObject"
QUERY == "query"

Tokens == {EQ, MAP, QUERY, "(", ")", ",", "[", "]", ";", " ", "\n", "x"}

\* \s
Space == {" ", "\n"}
\* [^,]
NotComma == Tokens \ {","}
\* [^\]]
NotRBracket == Tokens \ {"]"}
\* .  (no DOTALL flag: anything but a line break)
Dot == Tokens \ {"\n"}

\* One past the end of the longest run of class cls starting at i: where a
\* greedy cls* stops first.
RECURSIVE Greedy(_, _, _)
Greedy(t, i, cls) ==
    IF i <= Len(t) /\ t[i] \in cls THEN Greedy(t, i + 1, cls) ELSE i

\* The token at i, or "" past either end of the text.
At(t, i) == IF i \in 1..Len(t) THEN t[i] ELSE ""

NoMatch == [start |-> 0]

----------------------------------------------------------------------------
(* fix-template-queries.py *)

\* The replacement templates r'executeQuery(\1, \2, mapRowToObject);' and
\* r'executeQuery(\1, \2, mapRowToObject)\3'.
TemplateV1(g1, g2, g3) ==
    <<EQ, "(">> \o g1 \o <<",", " ">> \o g2 \o <<",", " ", MAP, ")">> \o g3

\* pattern1 (withSemi) or pattern2 tried at position i.
\*   executeQuery\(([^,]+),\s*(\[[^\]]*\])\s*\);
\*   executeQuery\(([^,]+),\s*(\[[^\]]*\])\s*\)([^;])
\* Every quantifier is greedy and is followed by a token outside its class,
\* so the only length the engine's backtracking can succeed with is the
\* longest run.
MatchV1(t, i, withSemi) ==
    IF ~(At(t, i) = EQ /\ At(t, i + 1) = "(") THEN NoMatch
    ELSE
    LET a == i + 2
        k == Greedy(t, a, NotComma)          \* the "," after group 1
        b == Greedy(t, k + 1, Space)         \* the "[" opening group 2
        c == Greedy(t, b + 1, NotRBracket)   \* the "]" closing group 2
        d == Greedy(t, c + 1, Space)         \* the ")"
        e == d + 1                           \* ";" or group 3
    IN  IF /\ k > a
           /\ At(t, k) = ","
           /\ At(t, b) = "["
           /\ At(t, c) = "]"
           /\ At(t, d) = ")"
           /\ e <= Len(t)
           /\ (t[e] = ";") = withSemi
        THEN LET g1 == SubSeq(t, a, k - 1)
                 g2 == SubSeq(t, b, c)
                 g3 == <<t[e]>>
             IN  [start |-> i, end |-> e, g1 |-> g1, g2 |-> g2,
                  text |-> SubSeq(t, i, e),
                  repl |-> TemplateV1(g1, g2, g3)]
        ELSE NoMatch

\* The non-overlapping matches re.sub finds from position i on, left to right.
RECURSIVE FindAllV1(_, _, _)
FindAllV1(t, i, withSemi) ==
    IF i > Len(t) THEN <<>>
    ELSE LET m == MatchV1(t, i, withSemi)
         IN  IF m.start = 0 THEN FindAllV1(t, i + 1, withSemi)
             ELSE <<m>> \o FindAllV1(t, m.end + 1, withSemi)

\* re.sub's result: the text from pos on with every match replaced.
RECURSIVE Rebuild(_, _, _)
Rebuild(t, pos, ms) ==
    IF ms = <<>> THEN SubSeq(t, pos, Len(t))
    ELSE SubSeq(t, pos, Head(ms).start - 1) \o Head(ms).repl
             \o Rebuild(t, Head(ms).end + 1, Tail(ms))

SubV1(t, withSemi) == Rebuild(t, 1, FindAllV1(t, 1, withSemi))

NormalizeV1(t) == SubV1(SubV1(t, TRUE), FALSE)

----------------------------------------------------------------------------
(* fix-template-queries-v2.py *)

\* Fault: the replacer formats first_arg into both argument places.
ReplacerRepeatsFirst(text, g1, g2) ==
    IF \E j \in 1..Len(text) : text[j] = MAP THEN text
    ELSE <<EQ, "(">> \o g1 \o <<",", " ">> \o g1 \o <<",", " ", MAP, ")">>

\* replacer(match)
Replacer(text, g1, g2) ==
    IF \E j \in 1..Len(text) : text[j] = MAP THEN text
    ELSE <<EQ, "(">> \o g1 \o <<",", " ">> \o g2 \o <<",", " ", MAP, ")">>

\* ,\s*(\[[\s\S]*?\])\s*\)  tried with the "," at k: the index of the ")" it
\* ends at and of the "]" closing group 2, or 0.  \s* is greedy and followed
\* by a non-space token; [\s\S]*? is lazy, so the engine takes the first "]"
\* after which \s*\) matches.
TailV2(t, k) ==
    LET b == Greedy(t, k + 1, Space)
        cs == {c \in (b + 1)..Len(t) :
                  t[c] = "]" /\ At(t, Greedy(t, c + 1, Space)) = ")"}
    IN  IF At(t, k) = "," /\ At(t, b) = "[" /\ cs # {}
        THEN LET c == CHOOSE x \in cs : \A y \in cs : x <= y
             IN  [b |-> b, c |-> c, d |-> Greedy(t, c + 1, Space)]
        ELSE [b |-> 0, c |-> 0, d |-> 0]

\* pattern tried at position i.
\*   executeQuery\((query|.*?),\s*(\[[\s\S]*?\])\s*\)
\* Group 1: the alternative `query` first; when the rest fails after it, the
\* lazy .*? with 0, 1, 2, ... tokens of the line.
MatchV2(t, i) ==
    IF ~(At(t, i) = EQ /\ At(t, i + 1) = "(") THEN NoMatch
    ELSE
    LET a == i + 2
        viaQuery == At(t, a) = QUERY /\ TailV2(t, a + 1).d # 0
        ks == {k \in a..Greedy(t, a, Dot) : TailV2(t, k).d # 0}
    IN  IF ~viaQuery /\ ks = {} THEN NoMatch
        ELSE LET k == IF viaQuery THEN a + 1
                      ELSE CHOOSE x \in ks : \A y \in ks : x <= y
                 r == TailV2(t, k)
                 g1 == SubSeq(t, a, k - 1)
                 g2 == SubSeq(t, r.b, r.c)
                 text == SubSeq(t, i, r.d)
             IN  [start |-> i, end |-> r.d, g1 |-> g1, g2 |-> g2,
                  text |-> text, repl |-> Replacer(text, g1, g2)]

RECURSIVE FindAllV2(_, _)
FindAllV2(t, i) ==
    IF i > Len(t) THEN <<>>
    ELSE LET m == MatchV2(t, i)
         IN  IF m.start = 0 THEN FindAllV2(t, i + 1)
             ELSE <<m>> \o FindAllV2(t, m.end + 1)

NormalizeV2(t) == Rebuild(t, 1, FindAllV2(t, 1))

----------------------------------------------------------------------------
(* The texts the file starts with *)

\* executeQuery(x,[x])
CallTwo == <<EQ, "(", "x", ",", "[", "x", "]", ")">>
\* executeQuery(x, [x], mapRowToObject)
CallThree ==
    <<EQ, "(", "x", ",", " ", "[", "x", "]", ",", " ", MAP, ")">>
\* executeQuery(mapRowToObject[x])
CallIndexed == <<EQ, "(", MAP, "[", "x", "]", ")">>
\* ,\n[x,x]\n);   the rest of a call whose array literal is on lines of its own
ArrayLines == <<",", "\n", "[", "x", ",", "x", "]", "\n", ")", ";">>

\* What a text is put together from: single tokens and pieces of calls.
Fragments ==
    {<<t>> : t \in Tokens}
        \cup {<<EQ, "(">>, <<"[", "x", "]">>, CallTwo, CallThree, CallIndexed,
              ArrayLines}

MaxFrags == 3
MaxRaceFrags == 2

RaceFragments == {CallTwo, <<";">>}

RECURSIVE Concats(_, _)
Concats(frags, n) ==
    IF n = 0 THEN {<<>>}
    ELSE LET S == Concats(frags, n - 1)
         IN  S \cup {s \o f : s \in S, f \in frags}

Texts == Concats(Fragments, MaxFrags)
RaceTexts == Concats(RaceFragments, MaxRaceFrags)

----------------------------------------------------------------------------
(* The scripts, step by step *)

Message == IF script = "v1" THEN "Fixed all executeQuery calls!"
           ELSE "Fixed all executeQuery calls (v2)!"

Step(p, what) == trace' = Append(trace, <<p, what>>)

\* with open(path, 'r') as f: content = f.read()
\* A missing file raises FileNotFoundError, which nothing catches.
OpenRead(p) ==
    /\ pc[p] = "start"
    /\ IF exists
       THEN /\ content' = [content EXCEPT ![p] = file]
            /\ pc' = [pc EXCEPT ![p] = "read"]
            /\ Step(p, "read")
       ELSE /\ pc' = [pc EXCEPT ![p] = "crashed"]
            /\ Step(p, "crash")
            /\ UNCHANGED content
    /\ UNCHANGED <<script, exists, file, orig, found, out>>

\* content = re.sub(pattern1, ..., content)
SubPattern1(p) ==
    /\ script = "v1"
    /\ pc[p] = "read"
    /\ found' = [found EXCEPT ![p] = FindAllV1(content[p], 1, TRUE)]
    /\ content' = [content EXCEPT ![p] = SubV1(content[p], TRUE)]
    /\ pc' = [pc EXCEPT ![p] = "sub1"]
    /\ Step(p, "sub1")
    /\ UNCHANGED <<script, exists, file, orig, out>>

\* content = re.sub(pattern2, ..., content)
SubPattern2(p) ==
    /\ script = "v1"
    /\ pc[p] = "sub1"
    /\ found' = [found EXCEPT ![p] = FindAllV1(content[p], 1, FALSE)]
    /\ content' = [content EXCEPT ![p] = SubV1(content[p], FALSE)]
    /\ pc' = [pc EXCEPT ![p] = "transformed"]
    /\ Step(p, "sub2")
    /\ UNCHANGED <<script, exists, file, orig, out>>

\* Fault: re.sub(pattern, replacer, content) with its result dropped.
SubPatternDiscarded(p) ==
    /\ script = "v2"
    /\ pc[p] = "read"
    /\ found' = [found EXCEPT ![p] = FindAllV2(content[p], 1)]
    /\ pc' = [pc EXCEPT ![p] = "transformed"]
    /\ Step(p, "sub")
    /\ UNCHANGED <<script, exists, file, orig, content, out>>

\* content = re.sub(pattern, replacer, content)
SubPattern(p) ==
    /\ script = "v2"
    /\ pc[p] = "read"
    /\ found' = [found EXCEPT ![p] = FindAllV2(content[p], 1)]
    /\ content' = [content EXCEPT ![p] = NormalizeV2(content[p])]
    /\ pc' = [pc EXCEPT ![p] = "transformed"]
    /\ Step(p, "sub")
    /\ UNCHANGED <<script, exists, file, orig, out>>

\* open(path, 'w'): creates the file or truncates it to length 0.
OpenWrite(p) ==
    /\ pc[p] = "transformed"
    /\ exists' = TRUE
    /\ file' = <<>>
    /\ pc' = [pc EXCEPT ![p] = "opened"]
    /\ Step(p, "open")
    /\ UNCHANGED <<script, orig, content, found, out>>

\* Fault: the file opened in 'a' mode, every write going to its end.
OverwriteAppends(old, data) == old \o data

\* What a write of `data` at offset 0 leaves in a file holding `old`.
Overwrite(old, data) == data \o SubSeq(old, Len(data) + 1, Len(old))

\* f.write(content) and the close that ends the with block: the data goes
\* to the file at this descriptor's own offset, 0 since the open.
WriteClose(p) ==
    /\ pc[p] = "opened"
    /\ file' = Overwrite(file, content[p])
    /\ pc' = [pc EXCEPT ![p] = "written"]
    /\ Step(p, "write")
    /\ UNCHANGED <<script, exists, orig, content, found, out>>

\* Fault: the confirmation printed inside the with block, in place of the
\* write.
PrintBeforeWrite(p) ==
    /\ pc[p] = "opened"
    /\ out' = Append(out, Message)
    /\ pc' = [pc EXCEPT ![p] = "done"]
    /\ Step(p, "print")
    /\ UNCHANGED <<script, exists, file, orig, content, found>>

\* print("Fixed all executeQuery calls!")
PrintDone(p) ==
    /\ pc[p] = "written"
    /\ out' = Append(out, Message)
    /\ pc' = [pc EXCEPT ![p] = "done"]
    /\ Step(p, "print")
    /\ UNCHANGED <<script, exists, file, orig, content, found>>

Next ==
    \E p \in Procs :
        \/ OpenRead(p)
        \/ SubPattern1(p)
        \/ SubPattern2(p)
        \/ SubPattern(p)
        \/ OpenWrite(p)
        \/ WriteClose(p)
        \/ PrintDone(p)

InitWith(texts, running) ==
    /\ script \in {"v1", "v2"}
    /\ exists \in BOOLEAN
    /\ file \in (IF exists THEN texts ELSE {<<>>})
    /\ orig = file
    /\ pc = [p \in Procs |-> IF p \in running THEN "start" ELSE "off"]
    /\ content = [p \in Procs |-> <<>>]
    /\ found = [p \in Procs |-> <<>>]
    /\ out = <<>>
    /\ trace = <<>>

\* One run of a script.
Init == InitWith(Texts, {1})
Spec == Init /\ [][Next]_vars

\* Two instances of a script started on the same file.
InitRace == InitWith(RaceTexts, Procs)
SpecRace == InitRace /\ [][Next]_vars

----------------------------------------------------------------------------
(* Vocabulary of the properties *)

Has(t, tok) == \E j \in 1..Len(t) : t[j] = tok

IsPrefix(a, b) == Len(a) <= Len(b) /\ SubSeq(b, 1, Len(a)) = a

NotSpace(c) == c \notin Space
\* The text without its spaces and line breaks.
Squash(t) == SelectSeq(t, NotSpace)

\* b is a with `ins` inserted immediately before some of its ")" and nothing
\* else changed.
RECURSIVE Inserted(_, _, _)
Inserted(a, b, ins) ==
    IF b = <<>> THEN a = <<>>
    ELSE \/ /\ a # <<>>
            /\ Head(a) = Head(b)
            /\ Inserted(Tail(a), Tail(b), ins)
         \/ /\ a # <<>>
            /\ Head(a) = ")"
            /\ Len(b) > Len(ins)
            /\ SubSeq(b, 1, Len(ins)) = ins
            /\ b[Len(ins) + 1] = ")"
            /\ Inserted(a, SubSeq(b, Len(ins) + 1, Len(b)), ins)

\* A well-formed two-argument call at i, executeQuery(<first>, [<array>]):
\* the first argument a name, the second an array literal of names, no
\* mapRowToObject in it.  end = 0 when there is none at i.
ArgTokens == {"x", QUERY}
ElemTokens == {"x", QUERY, ",", " ", "\n"}
PlainCall(t, i) ==
    LET k == Greedy(t, i + 2, ArgTokens)
        b == Greedy(t, k + 1, Space)
        c == Greedy(t, b + 1, ElemTokens)
        d == Greedy(t, c + 1, Space)
    IN  IF /\ At(t, i) = EQ /\ At(t, i + 1) = "("
           /\ k > i + 2 /\ At(t, k) = ","
           /\ At(t, b) = "[" /\ At(t, c) = "]" /\ At(t, d) = ")"
        THEN [end |-> d, first |-> SubSeq(t, i + 2, k - 1),
              array |-> SubSeq(t, b, c)]
        ELSE [end |-> 0, first |-> <<>>, array |-> <<>>]

\* executeQuery(<first>, [<array>], mapRowToObject)
ThreeArgForm(first, array) ==
    <<EQ, "(">> \o first \o <<",", " ">> \o array \o <<",", " ", MAP, ")">>

\* The token after position j as a text, empty at the end of the text.
Following(t, j) == IF j < Len(t) THEN <<t[j + 1]>> ELSE <<>>

\* The ")" closing the "(" before position j, `depth` parentheses being open
\* at j; 0 when the text ends first.
RECURSIVE CloseParen(_, _, _)
CloseParen(t, j, depth) ==
    IF j > Len(t) THEN 0
    ELSE IF t[j] = "(" THEN CloseParen(t, j + 1, depth + 1)
    ELSE IF t[j] = ")" THEN (IF depth = 1 THEN j
                             ELSE CloseParen(t, j + 1, depth - 1))
    ELSE CloseParen(t, j + 1, depth)

\* The steps instance p has taken, in order.
StepsOf(p) ==
    LET Mine(e) == e[1] = p
        mine == SelectSeq(trace, Mine)
    IN  [j \in 1..Len(mine) |-> mine[j][2]]

\* Where in the trace instance p took step `what` (0: not yet).
WhenStep(p, what) ==
    LET at == {j \in 1..Len(trace) : trace[j] = <<p, what>>}
    IN  IF at = {} THEN 0 ELSE CHOOSE j \in at : TRUE

AllDone == \A p \in Procs : pc[p] = "done"

\* The instance whose write finished last.
LastWriter ==
    CHOOSE p \in Procs :
        \A q \in Procs : WhenStep(q, "write") <= WhenStep(p, "write")

Other(p) == CHOOSE q \in Procs : q # p

----------------------------------------------------------------------------
(* Properties of one run (Spec) *)

\* C1: fix-template-queries-v2.py is idempotent: applying its substitution
\* to the text it produced gives that text again.
C1_IdempotentV2 ==
    \A p \in Procs :
        script = "v2" /\ pc[p] = "transformed"
            => NormalizeV2(content[p]) = content[p]

\* C2: fix-template-queries.py is idempotent: applying pattern1 then
\* pattern2 to the text they produced gives that text again.
C2_IdempotentV1 ==
    \A p \in Procs :
        script = "v1" /\ pc[p] = "transformed"
            => NormalizeV1(content[p]) = content[p]

\* C3: after one run of fix-template-queries-v2.py every well-formed
\* two-argument call without mapRowToObject has been rewritten: none is left
\* in the output, whatever precedes or follows it.
C3_EveryCallRewrittenV2 ==
    \A p \in Procs :
        script = "v2" /\ pc[p] = "transformed"
            => \A i \in 1..Len(content[p]) : PlainCall(content[p], i).end = 0

C5_NoDoubleInsertionV1 ==
    \A p \in Procs :
        script = "v1" /\ pc[p] \in {"sub1", "transformed"}
            => \A j \in 1..Len(found[p]) :
                   Has(found[p][j].text, MAP)
                       => found[p][j].repl = found[p][j].text

\* C6: fix-template-queries.py rewrites a two-argument call whose ")" is not
\* followed by ";" and keeps what follows it, also when the ")" ends the
\* text.  Stated of the first call of the text, which no earlier match can
\* reach.
C6_CallWithoutSemicolonV1 ==
    \A p \in Procs :
        script = "v1" /\ pc[p] = "transformed"
            => \A i \in 1..Len(orig) :
                   LET call == PlainCall(orig, i)
                   IN  (/\ call.end # 0
                        /\ At(orig, call.end + 1) # ";"
                        /\ ~Has(SubSeq(orig, 1, i - 1), EQ))
                       => IsPrefix(SubSeq(orig, 1, i - 1)
                                       \o ThreeArgForm(call.first, call.array)
                                       \o Following(orig, call.end),
                                   content[p])

\* C7: every ", mapRowToObject" fix-template-queries-v2.py inserts goes
\* before the ")" that closes the executeQuery( the match starts at.
C7_InsertionAtOwnParenV2 ==
    \A p \in Procs :
        script = "v2" /\ pc[p] = "transformed"
            => \A j \in 1..Len(found[p]) :
                   LET m == found[p][j]
                   IN  m.repl # m.text
                           => m.end = CloseParen(orig, m.start + 2, 1)

\* C8: a run reads, transforms, writes and prints in that order; the
\* confirmation is printed once, after the file holds the whole transformed
\* text, and is the same text whether or not a call changed; a missing file
\* ends the run at the read, with no file created and nothing printed.
RunOrder ==
    IF script = "v1"
    THEN <<"read", "sub1", "sub2", "open", "write", "print">>
    ELSE <<"read", "sub", "open", "write", "print">>
C8_RunOutcome ==
    \A p \in Procs :
        /\ IsPrefix(StepsOf(p), RunOrder) \/ StepsOf(p) = <<"crash">>
        /\ pc[p] = "done" =>
               /\ out = <<Message>>
               /\ StepsOf(p) = RunOrder
               /\ file = content[p]
        /\ pc[p] \in {"start", "read", "sub1", "transformed", "opened",
                      "written", "crashed"} => out = <<>>
        /\ pc[p] = "crashed" => ~exists /\ file = <<>> /\ StepsOf(p) = <<"crash">>
        /\ ~exists => pc[p] \in {"start", "crashed", "off"}

\* C8 witness: a run that changed a call site has printed its confirmation.
C8_Witness ==
    \E p \in Procs :
        pc[p] = "done" /\ out = <<Message>> /\ file # orig

----------------------------------------------------------------------------
(* Properties of two concurrent runs (SpecRace) *)

\* C9 as claimed: when both instances complete, the file holds exactly the
\* output of the instance whose write finished last.
C9_LastWriterWins ==
    AllDone => file = content[LastWriter]

\* C9 as amended: when both instances complete, the file starts with the
\* output of the instance whose write finished last: it is that output,
\* followed by what the other instance's output has beyond its length when
\* the other instance wrote after the last writer had opened the file.
C9_LastWriterOverwrites ==
    AllDone =>
        LET w == LastWriter
            o == Other(w)
        IN  /\ IsPrefix(content[w], file)
            /\ file = IF WhenStep(w, "open") < WhenStep(o, "write")
                      THEN content[w] \o SubSeq(content[o], Len(content[w]) + 1,
                                                 Len(content[o]))
                      ELSE content[w]

\* C9 witness: both instances completed and the other instance's output
\* shows after the last writer's.
C9_Witness ==
    /\ AllDone
    /\ file # content[LastWriter]
    /\ WhenStep(LastWriter, "open") < WhenStep(Other(LastWriter), "write")

\* C10 as claimed: two concurrent runs of fix-template-queries-v2.py leave
\* the file with the result of a single run.
C10_RaceConverges ==
    script = "v2" /\ AllDone => file = NormalizeV2(orig)

\* Both instances read the file before either opened it for writing.
ReadsBeforeOpens ==
    \A p, q \in Procs : WhenStep(p, "read") < WhenStep(q, "open")

\* C10 as amended: two concurrent runs of fix-template-queries-v2.py that
\* both read the file before either opens it for writing leave the file with
\* the result of a single run.
C10_RaceConvergesAfterCleanReads ==
    script = "v2" /\ AllDone /\ ReadsBeforeOpens => file = NormalizeV2(orig)

\* C10 witness: both runs read first, their writes overlapped, and the file
\* holds the single-run result, which differs from the original.
C10_Witness ==
    /\ script = "v2" /\ AllDone /\ ReadsBeforeOpens
    /\ \A p, q \in Procs : WhenStep(p, "open") < WhenStep(q, "write")
    /\ file = NormalizeV2(orig)
    /\ file # orig

====
